---- MODULE Spec2Model ----
(***************************************************************************)
(* Model of the instanced transform animation of the Cyber Christmas Tree. *)
(*                                                                         *)
(* Numbers are fixed point:                                                *)
(*   time            ticks of 1/TicksPerSec second                         *)
(*   positions       1/100 world unit  (centi-units)                       *)
(*   scales          1/10000                                               *)
(*   factors, sines  1/1000                                                *)
(*   sine arguments  1/100 radian                                          *)
(*   emitted angles  1/1000 radian                                         *)
(* Divisions round to the nearest representable value, as the floating     *)
(* point operations of the program do.                                     *)
(***************************************************************************)
EXTENDS Integers, Sequences, FiniteSets, TLC

VARIABLES
  appState,            \* App.tsx useState<AppState>
  hasStarted,          \* App.tsx useState(false)
  handState,           \* App.tsx useState<HandGestureState> (detection, gesture, position)
  clock,               \* state.clock.elapsedTime, in ticks
  data,                \* the ParticleData[] of each particle system (immutable after generation)
  lastState,           \* per system: lastState.current
  transitionStartTime, \* per system: transitionStartTime.current, in ticks
  currentPositions,    \* per system: the running position of each entity
  currentWaveHeight,   \* per system: currentWaveHeight of the latest frame, centi-units
  out,                 \* per system and entity: what the latest frame computed and emitted
  frames,              \* number of frames rendered so far
  frameLog,            \* history: <<mode, delta>> of every frame rendered so far
  enteredTree,         \* history: an external trigger switched EXPLODE -> TREE since the latest frame
  layoutData,          \* PhotoGallery: one {treePos, treeRot} per uploaded photo
  camera,              \* the z coordinate of the camera position, centi-units
  treeGroup,           \* treeGroupRef: whether current holds the group, its rotation about X
                       \* and Y (1/100 radian), whether the rotation is a finite number, and
                       \* its position
  panels,              \* per photo: currentPos, currentRot, currentScale of its ChristmasFilmFrame
  panelOut,            \* per photo: the targets and the factor of the latest frame
  panelFrames,         \* number of gallery frames rendered so far
  photos,              \* App.tsx userPhotos: the number of uploaded photos
  solverRun,           \* the layoutData useMemo is being computed
  photoIndex,          \* layout solver: i, the photo being placed
  attempt,             \* layout solver: attempt, the random candidates rejected for photo i
  solverData,          \* layout solver: data, the records pushed so far
  placedBy,            \* history: per record of the latest solver run, the photo it was
                       \* made for and how its position was found
  lastCandidate,       \* history: the candidate position drawn last, << >> before a draw
  stepInput,           \* carousel step under study: time (ticks), whole cycles added, panels
  stepOutput,          \* what the step calculation and the wrap logic computed for it
  generated,           \* TreeLogic data generation: the length of each array so far
  lastPushed,          \* TreeLogic data generation: the record pushed last
  lastDraw,            \* history: the Math.random() outcomes the record pushed last was made of
  mounted,             \* per particle system: the outcome of its useLayoutEffect
  lastHandPos,         \* Experience: lastHandPos.current, << >> for null
  currentVelocity,     \* Experience: currentVelocity.current, x and y, 1/1000 radian per second
  lastInteractionTime, \* Experience: lastInteractionTime.current, in ticks
  stars,               \* Experience: rotation of the background stars, 1/1000 radian
  experienceOut,       \* Experience: what the latest frame computed
  experienceFrames     \* number of Experience frames rendered so far

particleVars == <<data, lastState, transitionStartTime, currentPositions, currentWaveHeight,
                  out, frames, frameLog>>

galleryVars == <<layoutData, camera, treeGroup, panels, panelOut, panelFrames>>

solverVars == <<photos, solverRun, photoIndex, attempt, solverData, placedBy, lastCandidate>>

stepVars == <<stepInput, stepOutput>>

generatorVars == <<generated, lastPushed, lastDraw, mounted>>

handRefs == <<lastHandPos, currentVelocity>>

experienceVars == <<lastInteractionTime, stars, experienceOut, experienceFrames>>

setupVars == <<solverVars, stepVars, generatorVars, experienceVars>>

vars == <<appState, hasStarted, handState, clock, enteredTree, particleVars, galleryVars,
          setupVars, handRefs>>

----
\* Bounds of the model

MaxFrames == 4

MaxPanelFrames == 3

MaxPhotos == 3

MaxExperienceFrames == 2

MaxStepTime == 150

MaxCycles == 2

\* frame deltas in ticks: 0, 0.05 s, 0.45 s, 1 s
Deltas == {0, 1, 9, 20}

TicksPerSec == 20

----
\* Arithmetic helpers

Abs(a) == IF a < 0 THEN -a ELSE a

Min(a, b) == IF a < b THEN a ELSE b

Max(a, b) == IF a > b THEN a ELSE b

\* a / b rounded to the nearest integer (b > 0)
RoundDiv(a, b) == IF a >= 0 THEN (a + b \div 2) \div b ELSE -(((-a) + b \div 2) \div b)

\* THREE.MathUtils.clamp
clamp(value, lo, hi) == Max(lo, Min(hi, value))

\* Math.sin: argument in centi-radians, result in 1/1000 (Bhaskara's approximation)
SinHalf(x) == (16000 * x * (314 - x)) \div (5 * 314 * 314 - 4 * x * (314 - x))

Sin(x) ==
  LET r == x % 628
  IN IF r <= 314 THEN SinHalf(r) ELSE -SinHalf(r - 314)

\* Math.cos
Cos(x) == Sin(x + 157)

\* Vector3.lerp / MathUtils.lerp with factor alpha in 1/1000: v + (target - v) * alpha
lerp(v, target, alpha) ==
  v + (target - v) * (alpha \div 1000) + RoundDiv((target - v) * (alpha % 1000), 1000)

lerpVec(v, target, alpha) == [k \in 1..3 |-> lerp(v[k], target[k], alpha)]

\* squared Vector3.distanceTo
DistSq(a, b) ==
  (a[1] - b[1]) * (a[1] - b[1]) + (a[2] - b[2]) * (a[2] - b[2]) + (a[3] - b[3]) * (a[3] - b[3])

----
\* The scene data

Systems == {"leaves", "redOrnaments", "goldOrnaments", "ribbonParticles", "starParticles"}

animationSpeed(s) == IF s = "starParticles" THEN 3000 ELSE 2500

Particle(id, type, tp, ep, rot, sc) ==
  [id |-> id, type |-> type, treePosition |-> tp, explodePosition |-> ep,
   rotation |-> rot, scale |-> sc]

\* Two outcomes of the data generation: the dispersed positions of set 1 are far from the
\* tree, those of the garland and accent entities of set 2 lie within 3 units of it.
DataSet(n) ==
  [s \in Systems |->
     CASE s = "leaves" ->
            << Particle(0, "LEAF", <<300, -250, 0>>, <<1000, 2000, -3000>>, <<1000, 2000, 500>>, 2500) >>
       [] s = "redOrnaments" ->
            << Particle(6000, "ORNAMENT", <<0, -750, 600>>, <<-3000, 1000, 4000>>, <<1000, 2000, 0>>, 4000) >>
       [] s = "goldOrnaments" ->
            << Particle(6001, "ORNAMENT", <<-400, 250, 0>>, <<2000, -4000, 1000>>, <<500, 3000, 0>>, 3000) >>
       [] s = "ribbonParticles" ->
            << Particle(6080, "RIBBON", <<920, -1250, 0>>,
                        IF n = 1 THEN <<-2000, 3000, 4000>> ELSE <<1000, -1100, 200>>,
                        <<500, 200, 900>>, 1500),
               Particle(7340, "RIBBON", <<111, 500, -342>>,
                        IF n = 1 THEN <<3000, -3000, 1000>> ELSE <<200, 400, -100>>,
                        <<100, 800, 300>>, 2000) >>
       [] s = "starParticles" ->
            << Particle(7880, "STAR_PARTICLE", <<10, 1330, 10>>,
                        IF n = 1 THEN <<5000, 4000, -3000>> ELSE <<100, 1500, -50>>,
                        <<2000, 1000, 3000>>, 1000),
               Particle(7881, "STAR_PARTICLE", <<-20, 1500, 0>>,
                        IF n = 1 THEN <<-4000, 5000, 2000>> ELSE <<0, 1600, 100>>,
                        <<1000, 3000, 500>>, 1500) >>]

DataSets == {DataSet(1), DataSet(2)}

type(d) == IF Len(d) > 0 THEN d[1].type ELSE "LEAF"

isRibbon(d) == type(d) = "RIBBON"

isStar(d) == type(d) = "STAR_PARTICLE"

isOrnament(d) == type(d) = "ORNAMENT"

\* nothing emitted yet (no frame has run)
NoOutput == [scale |-> -1, branch |-> "none", streak |-> FALSE, activeLerp |-> -1,
             popProgress |-> -1, target |-> <<0, 0, 0>>, rotation |-> <<0, 0, 0, 0>>,
             mode |-> "none", wave |-> 0]

----
\* Construction

InitParticles ==
  /\ appState = "TREE"
  /\ hasStarted = FALSE
  /\ handState = [isHandDetected |-> FALSE, gesture |-> "NONE", handPosition |-> <<500, 500>>]
  /\ clock = 0
  /\ data \in DataSets
  /\ lastState = [s \in Systems |-> appState]
  /\ transitionStartTime = [s \in Systems |-> 0]
  /\ currentPositions = [s \in Systems |-> [i \in 1..Len(data[s]) |-> data[s][i].treePosition]]
  /\ currentWaveHeight = [s \in Systems |-> -1500]
  /\ out = [s \in Systems |-> [i \in 1..Len(data[s]) |-> NoOutput]]
  /\ frames = 0
  /\ frameLog = << >>
  /\ enteredTree = FALSE

\* what a ChristmasFilmFrame holds when it is mounted
PanelInit(pd) == [currentPos |-> pd.treePos, currentRot |-> pd.treeRot, currentScale |-> 1000]

NoPanelOutput == [targetPos |-> <<0, 0, 0>>, targetQuat |-> <<0, 0, 0>>, finalTargetScale |-> -1,
                  t |-> -1, x |-> 0, scrollIndex |-> -1, carousel |-> FALSE]

\* the group of the tree at position [0, -5, 0]; current is false while the reference
\* created by useRef(null) has not been given the group
TreeGroup(rotationY, current) ==
  [rotationX |-> 0, rotationY |-> rotationY, finite |-> TRUE, position |-> <<0, -500, 0>>,
   current |-> current]

InitGalleryRef(layout, refStates) ==
  /\ layoutData = layout
  /\ camera = 4000
  /\ treeGroup \in {TreeGroup(rotationY, current) : rotationY \in {0, 50}, current \in refStates}
  /\ panels = [i \in 1..Len(layoutData) |-> PanelInit(layoutData[i])]
  /\ panelOut = [i \in 1..Len(layoutData) |-> NoPanelOutput]
  /\ panelFrames = 0

\* the scene with the group attached to its reference
InitGallery(layout) == InitGalleryRef(layout, {TRUE})

\* the layout solver at rest: layoutData holds the result for the current photo list
InitSolver ==
  /\ photos = Len(layoutData)
  /\ solverRun = FALSE
  /\ photoIndex = photos
  /\ attempt = 0
  /\ solverData = layoutData
  /\ placedBy = [k \in 1..photos |-> [photo |-> k - 1, by |-> "random"]]
  /\ lastCandidate = << >>

\* no carousel step under study
NoStepOutput == [done |-> FALSE, cyclePhase |-> 0, scrollIndex |-> 0, scrollIndexLater |-> 0,
                 scrollIndexAfter |-> 0, itemStride |-> 0, x |-> << >>, wobble |-> << >>]

InitStep ==
  /\ stepInput = [time |-> 0, cycles |-> 0, total |-> 1]
  /\ stepOutput = NoStepOutput

\* no record pushed
NoRecord == [id |-> -1, type |-> "none", treePosition |-> <<0, 0, 0>>,
             explodePosition |-> <<0, 0, 0>>, rotation |-> <<0, 0, 0>>, scale |-> 0,
             color |-> -1]

NoDraw == [a |-> 0, b |-> 0, c |-> 0, u |-> 0, v |-> 0, w |-> 0, s |-> 0,
           e |-> <<0, 0, 0>>, k |-> 0]

\* the data generation has run and the five particle systems are mounted
InitGenerated ==
  /\ generated = [s \in Systems |-> Len(data[s])]
  /\ lastPushed = NoRecord
  /\ lastDraw = NoDraw
  /\ mounted = [s \in Systems |-> IF isRibbon(data[s]) \/ isStar(data[s])
                                     THEN "colored" ELSE "plain"]

\* a JavaScript number: a finite value v, an infinity of sign v, or NaN
Num(v) == [k |-> "num", v |-> v]

Inf(sign) == [k |-> "inf", v |-> sign]

NaN == [k |-> "nan", v |-> 0]

NoExperienceOutput == [safeDelta |-> -1, tracking |-> FALSE,
                       targetVelX |-> Num(0), targetVelY |-> Num(0)]

\* Experience after its first render: no hand, no velocity, no frame yet
InitExperience ==
  /\ lastHandPos = << >>
  /\ currentVelocity = [x |-> Num(0), y |-> Num(0)]
  /\ lastInteractionTime = 0
  /\ stars = [x |-> 0, y |-> 0]
  /\ experienceOut = NoExperienceOutput
  /\ experienceFrames = 0

InitSetup == InitSolver /\ InitStep /\ InitGenerated /\ InitExperience

\* the scene without photos
Init == InitParticles /\ InitGallery(<< >>) /\ InitSetup

----
\* External triggers of the mode

\* App.tsx: the ENTER EXPERIENCE button
Start ==
  /\ ~hasStarted
  /\ hasStarted' = TRUE
  /\ UNCHANGED <<appState, handState, clock, data, lastState, transitionStartTime,
                 currentPositions, currentWaveHeight, out, frames, frameLog, enteredTree,
                 galleryVars, setupVars, handRefs>>

toggleStateToTree(prev) == "TREE"

toggleState(prev) == IF prev = "TREE" THEN "EXPLODE" ELSE "TREE"

\* App.tsx: onClick={hasStarted ? toggleState : undefined}
Click ==
  /\ hasStarted
  /\ appState' = toggleState(appState)
  /\ enteredTree' = (enteredTree \/ appState' = "TREE")
  /\ UNCHANGED <<hasStarted, handState, clock, particleVars, galleryVars, setupVars, handRefs>>

\* GestureController.tsx predictWebcam: one processed video frame; landmarks is the
\* detection result: "PINCH", "OPEN" (a hand, not pinching) or "NONE" (no hand)
\* and indexTip the position of the tip of the index finger in 1/1000 of the video frame.
\* The render that follows runs Experience's effect on handState.isHandDetected.
predictWebcam(landmarks, indexTip) ==
  /\ hasStarted
  /\ IF landmarks # "NONE"
       THEN /\ handState' = [isHandDetected |-> TRUE, gesture |-> landmarks,
                             handPosition |-> <<1000 - indexTip[1], indexTip[2]>>]
            /\ appState' = IF landmarks = "PINCH" THEN "TREE" ELSE "EXPLODE"
       ELSE /\ handState' = [isHandDetected |-> FALSE, gesture |-> "NONE",
                             handPosition |-> <<500, 500>>]
            /\ appState' = appState
  /\ enteredTree' = (enteredTree \/ (appState = "EXPLODE" /\ appState' = "TREE"))
  /\ IF handState'.isHandDetected = handState.isHandDetected
       THEN UNCHANGED handRefs
       ELSE IF handState'.isHandDetected
              THEN IF lastHandPos = << >>
                     THEN /\ lastHandPos' = handState'.handPosition
                          /\ currentVelocity' = [x |-> Num(0), y |-> Num(0)]
                     ELSE UNCHANGED handRefs
              ELSE /\ lastHandPos' = << >>
                   /\ UNCHANGED currentVelocity
  /\ UNCHANGED <<hasStarted, clock, particleVars, galleryVars, setupVars>>

----
\* ParticleSystem.tsx useFrame

waveSpeed == 20

waveStartOffset == -1500

\* Detect State Change: the new transitionStartTime.current
DetectAlways(mode, last, tst, time) == time

DetectEnterExplode(mode, last, tst, time) == IF mode # last /\ mode = "EXPLODE" THEN time ELSE tst

DetectStateChange(mode, last, tst, time) == IF mode # last THEN time ELSE tst

\* const lerpFactor = THREE.MathUtils.clamp(delta * animationSpeed, 0, 1)
lerpFactorUnclamped(s, delta) == (delta * animationSpeed(s)) \div TicksPerSec

lerpFactor(s, delta) == clamp((delta * animationSpeed(s)) \div TicksPerSec, 0, 1000)

\* currentWaveHeight = waveStartOffset + timeSinceTransition * waveSpeed
WaveHeightFromBase(time, tst) == -1250 + ((time - tst) * waveSpeed * 100) \div TicksPerSec

WaveHeight(time, tst) == waveStartOffset + ((time - tst) * waveSpeed * 100) \div TicksPerSec

\* const target = targetIsTree ? particle.treePosition : particle.explodePosition
TargetSwapped(p, targetIsTree) == IF targetIsTree THEN p.explodePosition ELSE p.treePosition

Target(p, targetIsTree) == IF targetIsTree THEN p.treePosition ELSE p.explodePosition

\* particle.treePosition.y < currentWaveHeight
underWaveFlipped(p, wave) == p.treePosition[2] > wave

underWaveInclusive(p, wave) == p.treePosition[2] <= wave

underWave(p, wave) == p.treePosition[2] < wave

\* const popProgress = Math.min(1, (currentWaveHeight - 14.0) / 5)
\* STAR: Show only if wave has reached the very top: currentWaveHeight > 14.0
reachedTopEarly(wave) == wave > -1400

reachedTop(wave) == wave > 1400

popProgressUnbounded(wave) == (wave - 1400) * 2

popProgress(wave) == Min(1000, (wave - 1400) * 2)

\* Hide streaks: if (isRibbon || isStar) if (targetIsTree) if (dist > 3.0)
hideStreakAnyMode(d, targetIsTree, tempVec, p) ==
  (isRibbon(d) \/ isStar(d)) /\ DistSq(tempVec, p.treePosition) > 300 * 300

hideStreakRibbonOnly(d, targetIsTree, tempVec, p) ==
  isRibbon(d) /\ targetIsTree /\ DistSq(tempVec, p.treePosition) > 300 * 300

hideStreak(d, targetIsTree, tempVec, p) ==
  (isRibbon(d) \/ isStar(d)) /\ targetIsTree /\ DistSq(tempVec, p.treePosition) > 300 * 300

\* const targetIsTree = appState === AppState.TREE: the mode a frame works with is the
\* appState prop of the latest render, not the mode remembered from the previous frame
ModeOfPreviousFrame(app, last) == last

ModeOfFrame(app, last) == app

\* the body of the per-entity loop: the new running position and the emitted transform
Tick(s, d, p, cur, mode, time, delta, wave) ==
  LET targetIsTree == mode = "TREE"
      target == Target(p, targetIsTree)
      normalizedH == ((p.treePosition[2] + 1250) * 2) \div 5
      \* --- Behavior Logic ---
      branch ==
        IF isRibbon(d)
          THEN IF targetIsTree THEN (IF underWave(p, wave) THEN "wave" ELSE "hidden") ELSE "zero"
        ELSE IF isStar(d)
          THEN IF targetIsTree THEN (IF reachedTop(wave) THEN "pop" ELSE "hidden") ELSE "zero"
        ELSE IF ~targetIsTree /\ isOrnament(d) THEN "boost" ELSE "base"
      scale ==
        CASE branch = "wave" ->
               RoundDiv(p.scale * (800 + RoundDiv(400 * Sin(time * 15 + normalizedH), 1000)), 1000)
          [] branch = "pop" ->
               RoundDiv(RoundDiv(p.scale * popProgress(wave), 1000)
                          * (1000 + RoundDiv(300 * Sin(time * 25 + p.id * 100), 1000)), 1000)
          [] branch = "hidden" -> IF isRibbon(d) THEN 100 ELSE 10
          [] branch = "zero" -> 0
          [] branch = "boost" -> RoundDiv(p.scale * 12, 10)
          [] OTHER -> p.scale
      tempTarget ==
        IF isRibbon(d) \/ isStar(d) THEN target
        ELSE IF targetIsTree
          THEN <<target[1],
                 target[2] + RoundDiv(5 * Sin((time * 15) \div 2 + p.id * 10), 1000),
                 target[3]>>
          ELSE <<target[1] + RoundDiv(8 * Cos((time * 3) \div 2 + p.id * 100), 1000),
                 target[2] + RoundDiv(5 * Sin(time + p.id * 100), 1000),
                 target[3] + RoundDiv(8 * Sin((time * 3) \div 2 + p.id * 100), 1000)>>
      \* --- Lerp Position ---
      activeLerp ==
        IF isRibbon(d) /\ targetIsTree THEN (IF underWave(p, wave) THEN 200 ELSE 50)
        ELSE lerpFactor(s, delta)
      tempVec == lerpVec(cur, tempTarget, activeLerp)
      \* --- Rotation ---
      rotation ==
        IF isRibbon(d) \/ isStar(d)
          THEN <<p.rotation[1], p.rotation[2], p.rotation[3],
                 (time * 3000) \div TicksPerSec + p.id * 1000>>
          ELSE <<p.rotation[1] + (delta * 200) \div TicksPerSec,
                 p.rotation[2] + (delta * 500) \div TicksPerSec,
                 p.rotation[3] + (IF targetIsTree THEN 0 ELSE (delta * 1000) \div TicksPerSec),
                 0>>
      streak == hideStreak(d, targetIsTree, tempVec, p)
  IN [pos |-> tempVec,
      emit |-> [scale |-> IF streak THEN 100 ELSE scale,
                branch |-> branch,
                streak |-> streak,
                activeLerp |-> activeLerp,
                popProgress |-> IF branch = "pop" THEN popProgress(wave) ELSE -1,
                target |-> tempTarget,
                rotation |-> rotation,
                mode |-> mode,
                wave |-> wave]]

\* currentPositions.current as the Float32Array it is: three numbers per entity
Flat(positions) ==
  [k \in 1..(3 * Len(positions)) |-> positions[((k - 1) \div 3) + 1][((k - 1) % 3) + 1]]

Unflat(buffer) ==
  [i \in 1..(Len(buffer) \div 3) |-> <<buffer[3 * i - 2], buffer[3 * i - 1], buffer[3 * i]>>]

\* the indices i * 3, i * 3 + 1, i * 3 + 2 of entity i (from 0), as positions of a sequence
slotsPacked(i) == <<i * 2 + 1, i * 2 + 2, i * 2 + 3>>

slots(i) == <<i * 3 + 1, i * 3 + 2, i * 3 + 3>>

\* one pass of the loop body for entity i (from 0) of system s: Read current position,
\* the behaviour, Save back, and setMatrixAt(i, dummy.matrix)
LoopBody(st, s, i, f) ==
  LET at == slots(i)
      tempVec == <<st.buffer[at[1]], st.buffer[at[2]], st.buffer[at[3]]>>
  IN CHOOSE after \in
       {[buffer |-> [st.buffer EXCEPT ![at[1]] = res.pos[1],
                                      ![at[2]] = res.pos[2],
                                      ![at[3]] = res.pos[3]],
         sink |-> [st.sink EXCEPT ![i + 1] = res.emit]] :
          res \in {Tick(s, data[s], data[s][i + 1], tempVec, f.mode, f.time, f.delta, f.wave)}} :
       TRUE

\* the loop over the entities of system s, taken in the given order from its k-th place
RECURSIVE Loop(_, _, _, _, _)
Loop(st, s, order, k, f) ==
  IF k > Len(data[s]) THEN st
  ELSE CHOOSE end \in {Loop(after, s, order, k + 1, f) : after \in {LoopBody(st, s, order[k], f)}} :
         TRUE

\* for (let i = 0; i < data.length; i++)
Ascending(s) == [k \in 1..Len(data[s]) |-> k - 1]

\* one rendered frame: the useFrame callback of every particle system, with the same clock
Frame(delta) ==
  /\ frames < MaxFrames
  /\ clock' = clock + delta
  /\ frames' = frames + 1
  /\ frameLog' = Append(frameLog, <<appState, delta>>)
  /\ enteredTree' = FALSE
     \* Detect State Change
  /\ lastState' = [s \in Systems |-> appState]
  /\ transitionStartTime' =
       [s \in Systems |-> DetectStateChange(appState, lastState[s], transitionStartTime[s], clock')]
  /\ currentWaveHeight' = [s \in Systems |-> WaveHeight(clock', transitionStartTime'[s])]
  /\ \E res \in {[s \in Systems |->
                     CHOOSE end \in
                       {Loop(st, s, Ascending(s), 1, f) :
                          st \in {[buffer |-> Flat(currentPositions[s]), sink |-> out[s]]},
                          f \in {[mode |-> ModeOfFrame(appState, lastState[s]), time |-> clock',
                                  delta |-> delta, wave |-> currentWaveHeight'[s]]}} :
                       TRUE]} :
       /\ currentPositions' = [s \in Systems |-> Unflat(res[s].buffer)]
       /\ out' = [s \in Systems |-> res[s].sink]
  /\ UNCHANGED <<appState, hasStarted, handState, data, galleryVars, setupVars, handRefs>>

Next ==
  \/ Start
  \/ Click
  \/ \E landmarks \in {"PINCH", "OPEN", "NONE"} : predictWebcam(landmarks, <<500, 500>>)
  \/ \E delta \in Deltas : Frame(delta)

Spec == Init /\ [][Next]_vars

----
\* PhotoGallery.tsx: ChristmasFilmFrame useFrame

\* Ease In Out Cubic, argument and result in 1/1000
easeInOutCubic(x) ==
  IF x < 500 THEN RoundDiv(4 * x * x * x, 1000000)
  ELSE 1000 - RoundDiv((2000 - 2 * x) * (2000 - 2 * x) * (2000 - 2 * x), 2000000)

Z_DEPTH_EXPLODE == 2000

\* HOLD_DURATION = 1.0, MOVE_DURATION = 0.8, in ticks
HOLD_DURATION == 20

MOVE_DURATION == 16

CYCLE_DURATION == HOLD_DURATION + MOVE_DURATION

\* Math.tan(vFov / 2) for the camera's fov of 50 degrees, in 1/1000
TanHalfFov == 466

\* a % b of JavaScript: the remainder has the sign of the dividend
JsRem(a, b) == IF a >= 0 THEN a % b ELSE -((-a) % b)

\* The whole numbers k <= 60 of cycles for which the double nearest to k * 1.8 is smaller
\* than k times the double CYCLE_DURATION (1.0 + 0.8): at such a time the quotient
\* time / CYCLE_DURATION rounds to k, while the remainder time % CYCLE_DURATION, which is
\* computed exactly, is the double just below CYCLE_DURATION (9 % 1.8 = 1.7999999999999998).
ShortOfCycle ==
  {5, 7, 9, 10, 14, 15, 18, 20, 23, 25, 28, 30, 33, 35, 36, 40, 41, 45, 46, 50, 51, 55, 56, 60}

\* const cycleIndex = Math.floor(time / CYCLE_DURATION)
cycleIndexAt(time) == time \div CYCLE_DURATION

\* const cyclePhase = time % CYCLE_DURATION, in ticks
cyclePhaseAt(time) ==
  IF time % CYCLE_DURATION = 0 /\ (time \div CYCLE_DURATION) \in ShortOfCycle
    THEN CYCLE_DURATION
    ELSE time % CYCLE_DURATION

\* If we are in the MOVE phase: cyclePhase > HOLD_DURATION
inMoveEarly(cyclePhase) == cyclePhase > MOVE_DURATION

inMove(cyclePhase) == cyclePhase > HOLD_DURATION

\* the scroll index at a time, in 1/1000 (Step Calculation)
scrollIndexAt(time) ==
  LET cycleIndex == cycleIndexAt(time)
      cyclePhase == cyclePhaseAt(time)
  IN IF inMove(cyclePhase)
       THEN cycleIndex * 1000
              + easeInOutCubic(RoundDiv((cyclePhase - HOLD_DURATION) * 1000, MOVE_DURATION))
       ELSE cycleIndex * 1000

\* the remainder alone, without the two wrap steps
wrapXRemainder(index, total, itemStride, scrollIndex) ==
  JsRem(index * itemStride - RoundDiv(scrollIndex * itemStride, 1000), total * itemStride)

\* the horizontal offset of panel index (from 0) of total panels (Wrap logic)
wrapX(index, total, itemStride, scrollIndex) ==
  LET totalWidth == total * itemStride
      currentScrollOffset == RoundDiv(scrollIndex * itemStride, 1000)
      baseX == index * itemStride
      x0 == JsRem(baseX - currentScrollOffset, totalWidth)
      x1 == IF 2 * x0 < -totalWidth THEN x0 + totalWidth ELSE x0
  IN IF 2 * x1 > totalWidth THEN x1 - totalWidth ELSE x1

\* Slight wobble only if not centered: distFromCenter > 0.5
wobblesAlways(distFromCenter) == TRUE

wobbles(distFromCenter) == distFromCenter > 50

\* const lerpSpeed = isTree ? 4.0 : 8.0, times delta: the factor of the three interpolations
panelFactorClamped(isTree, delta) ==
  clamp((delta * (IF isTree THEN 4000 ELSE 8000)) \div TicksPerSec, 0, 1000)

panelFactor(isTree, delta) == (delta * (IF isTree THEN 4000 ELSE 8000)) \div TicksPerSec

\* the useFrame callback of the panel with index (from 0) of total panels
PanelTick(pd, cur, index, total, mode, time, delta) ==
  LET isTree == mode = "TREE"
      \* --- 1. VIEWPORT CALCULATION ---
      distance == camera - Z_DEPTH_EXPLODE
      visibleHeightAtDepth == RoundDiv(2 * TanHalfFov * distance, 1000)
      \* --- 2. SCALE BASICS ---
      baseScaleVal == IF isTree THEN 2500 ELSE RoundDiv(visibleHeightAtDepth * 100, 4 * 14)
      \* --- 3. POSITION & PPT LOGIC ---
      visualFrameWidth == RoundDiv(14 * baseScaleVal, 100)
      gap == RoundDiv(visualFrameWidth, 10)
      itemStride == visualFrameWidth + gap
      \* TREE MODE
      g == treeGroup.rotationY
      localY == pd.treePos[2] + RoundDiv(5 * Sin(time * 10 + index * 100), 1000)
      treeTargetPos ==
        <<RoundDiv(pd.treePos[1] * Cos(g) + pd.treePos[3] * Sin(g), 1000) + treeGroup.position[1],
          localY + treeGroup.position[2],
          RoundDiv(pd.treePos[3] * Cos(g) - pd.treePos[1] * Sin(g), 1000) + treeGroup.position[3]>>
      treeTargetQuat == <<pd.treeRot[1], pd.treeRot[2] + g * 10, pd.treeRot[3]>>
      \* PPT CAROUSEL MODE
      scrollIndex == scrollIndexAt(time)
      x == wrapX(index, total, itemStride, scrollIndex)
      distFromCenter == Abs(x)
      influenceDist == itemStride
      easeT == easeInOutCubic(RoundDiv(distFromCenter * 1000, influenceDist))
      scaleFactor == RoundDiv(1400 * (1000 - easeT) + 600 * easeT, 1000)
      carouselScale == IF distFromCenter < influenceDist
                         THEN RoundDiv(baseScaleVal * scaleFactor, 1000)
                         ELSE RoundDiv(baseScaleVal * 600, 1000)
      carouselZ == IF distFromCenter < influenceDist
                     THEN Z_DEPTH_EXPLODE + RoundDiv(400 * (1000 - easeT), 1000)
                     ELSE Z_DEPTH_EXPLODE
      yOffset == RoundDiv(visibleHeightAtDepth, 8)
      wobble == IF wobbles(distFromCenter)
                  THEN <<0, 0, RoundDiv(30 * Sin(time * 15 + index * 100), 1000)>>
                  ELSE <<0, 0, 0>>
      carousel == ~(isTree /\ treeGroup.current)
      targetPos == IF carousel THEN <<x, yOffset, carouselZ>> ELSE treeTargetPos
      targetQuat == IF carousel THEN wobble ELSE treeTargetQuat
      finalTargetScale == IF carousel THEN carouselScale ELSE baseScaleVal
      \* --- 4. LERP ---
      t == panelFactor(isTree, delta)
  IN [panel |-> [currentPos |-> lerpVec(cur.currentPos, targetPos, t),
                 currentRot |-> lerpVec(cur.currentRot, targetQuat, t),
                 currentScale |-> lerp(cur.currentScale, finalTargetScale, t)],
      emit |-> [targetPos |-> targetPos, targetQuat |-> targetQuat,
                finalTargetScale |-> finalTargetScale, t |-> t, x |-> x,
                scrollIndex |-> IF carousel THEN scrollIndex ELSE -1, carousel |-> carousel]]

\* one rendered frame: the useFrame callback of every panel, with the same clock
GalleryFrame(delta) ==
  /\ panelFrames < MaxPanelFrames
  /\ clock' = clock + delta
  /\ panelFrames' = panelFrames + 1
  /\ LET total == Len(layoutData)
         res == [i \in 1..total |->
                   PanelTick(layoutData[i], panels[i], i - 1, total, appState, clock', delta)]
     IN /\ panels' = [i \in 1..total |-> res[i].panel]
        /\ panelOut' = [i \in 1..total |-> res[i].emit]
  /\ UNCHANGED <<appState, hasStarted, handState, enteredTree, particleVars,
                 layoutData, camera, treeGroup, setupVars, handRefs>>

\* itemStride of the carousel (Spacing, with the scale of the dispersed mode), centi-units
carouselItemStride ==
  LET visibleHeightAtDepth == RoundDiv(2 * TanHalfFov * (camera - Z_DEPTH_EXPLODE), 1000)
      visualFrameWidth == RoundDiv(14 * RoundDiv(visibleHeightAtDepth * 100, 4 * 14), 100)
  IN visualFrameWidth + RoundDiv(visualFrameWidth, 10)

\* Step Calculation, Wrap logic and the wobble condition for the time under study; the
\* scroll index a whole number of cycles later and one tick after that
StepCalculation ==
  /\ ~stepOutput.done
  /\ stepOutput' =
       [done |-> TRUE,
        cyclePhase |-> cyclePhaseAt(stepInput.time),
        scrollIndex |-> scrollIndexAt(stepInput.time),
        scrollIndexLater |-> scrollIndexAt(stepInput.time + stepInput.cycles * CYCLE_DURATION),
        scrollIndexAfter |-> scrollIndexAt(stepInput.time + stepInput.cycles * CYCLE_DURATION + 1),
        itemStride |-> carouselItemStride,
        x |-> [k \in 1..stepInput.total |->
                 wrapX(k - 1, stepInput.total, carouselItemStride,
                       scrollIndexAt(stepInput.time))],
        wobble |-> [k \in 1..stepInput.total |->
                      wobbles(Abs(wrapX(k - 1, stepInput.total, carouselItemStride,
                                        scrollIndexAt(stepInput.time))))]]
  /\ UNCHANGED <<appState, hasStarted, handState, clock, enteredTree, particleVars, galleryVars,
                 solverVars, stepInput, generatorVars,
                 experienceVars, handRefs>>

\* a carousel frame at any time of the first MaxStepTime ticks, with 1..MaxPhotos panels
StepInit ==
  /\ InitParticles
  /\ data = DataSet(1)
  /\ InitGallery(<< >>)
  /\ treeGroup.rotationY = 0
  /\ InitSolver
  /\ InitGenerated
  /\ InitExperience
  /\ stepInput \in [time : 0..MaxStepTime, cycles : 0..MaxCycles, total : 1..MaxPhotos]
  /\ stepOutput = NoStepOutput

StepNext == StepCalculation

StepSpec == StepInit /\ [][StepNext]_vars

\* outcomes of the layout of one photo and of three photos
Panel(pos, rot) == [treePos |-> pos, treeRot |-> rot]

Layouts ==
  { << Panel(<<780, -1000, 0>>, <<50, 1671, -80>>) >>,
    << Panel(<<780, -1000, 0>>, <<50, 1671, -80>>),
       Panel(<<-470, 0, 0>>, <<-100, -1500, 120>>),
       Panel(<<0, 600, 290>>, <<150, 90, -30>>) >> }

\* the scene with uploaded photos; the renderer, which is not part of the sources, decides
\* when the group is attached to the reference that the panels read
GalleryInit ==
  /\ InitParticles
  /\ data = DataSet(1)
  /\ \E layout \in Layouts : InitGalleryRef(layout, BOOLEAN)
  /\ InitSetup

GalleryNext ==
  \/ Start
  \/ Click
  \/ \E landmarks \in {"PINCH", "OPEN", "NONE"} : predictWebcam(landmarks, <<500, 500>>)
  \/ \E delta \in Deltas : GalleryFrame(delta)

GallerySpec == GalleryInit /\ [][GalleryNext]_vars

----
\* Experience (part_001): the useFrame of the scene

\* indexTip outcomes of the hand detection, 1/1000 of the video frame
IndexTips == {<<500, 500>>, <<200, 300>>}

\* frame deltas in ticks: 0, 0.05 s, 1 s
ExperienceDeltas == {0, 1, 20}

\* a / b of JavaScript for finite a and b >= 0, times the sensitivity 5.0: a in 1/1000,
\* b in milliseconds, result in 1/1000 per second
VelocityOf(a, b) ==
  IF b = 0
    THEN IF a = 0 THEN NaN ELSE Inf(IF a > 0 THEN 1 ELSE -1)
    ELSE Num(RoundDiv(a * 5000, b))

\* THREE.MathUtils.lerp(x, y, t) = x + (y - x) * t for a finite t in 1/1000
jsLerp(x, y, t) ==
  CASE x.k = "nan" \/ y.k = "nan" -> NaN
    [] x.k = "num" /\ y.k = "num" -> Num(lerp(x.v, y.v, t))
    [] x.k = "num" /\ y.k = "inf" -> y
    [] OTHER -> NaN

\* THREE.MathUtils.clamp(value, lo, hi) = Math.max(lo, Math.min(hi, value))
jsClamp(x, lo, hi) ==
  CASE x.k = "nan" -> NaN
    [] x.k = "inf" -> Num(IF x.v > 0 THEN hi ELSE lo)
    [] OTHER -> Num(clamp(x.v, lo, hi))

\* Math.abs(x) > bound
jsAbsAbove(x, bound) ==
  CASE x.k = "nan" -> FALSE
    [] x.k = "inf" -> TRUE
    [] OTHER -> Abs(x.v) > bound

\* const safeDelta = Math.max(delta, 0.001), in milliseconds (delta in ticks)
safeDeltaUnguarded(delta) == delta * (1000 \div TicksPerSec)

safeDeltaOf(delta) == Max(delta * (1000 \div TicksPerSec), 1)

\* Continuous rotation and Interaction Logic: one frame
ExperienceFrame(delta) ==
  /\ experienceFrames < MaxExperienceFrames
  /\ experienceFrames' = experienceFrames + 1
  /\ clock' = clock + delta
  /\ LET time == clock'
         baseSpeed == IF appState = "TREE" THEN 200 ELSE 50
         maxDragSpeed == baseSpeed * 3
         \* 1. ALWAYS apply base auto-rotation
         rotY1 == treeGroup.rotationY + RoundDiv(baseSpeed * delta, 200)
         \* 2. Calculate Target Velocity from Hand Input
         tracking == handState.isHandDetected /\ lastHandPos # << >>
         dx == IF tracking THEN handState.handPosition[1] - lastHandPos[1] ELSE 0
         dy == IF tracking THEN handState.handPosition[2] - lastHandPos[2] ELSE 0
         safeDelta == safeDeltaOf(delta)
         targetVelX == IF tracking THEN VelocityOf(dx, safeDelta) ELSE Num(0)
         targetVelY == IF tracking THEN VelocityOf(dy, safeDelta) ELSE Num(0)
         \* 3. Smooth Velocity (Lerp)
         velX == jsLerp(currentVelocity.x, targetVelX, 100)
         velY == jsLerp(currentVelocity.y, targetVelY, 100)
         \* 4. Clamp Velocity
         clampedVelX == jsClamp(velX, -maxDragSpeed, maxDragSpeed)
         clampedVelY == jsClamp(velY, -maxDragSpeed, maxDragSpeed)
         \* 5. Apply Velocity to Rotation
         rotY2 == rotY1 + RoundDiv(clampedVelX.v * delta, 200)
         rotX1 == treeGroup.rotationX + RoundDiv(clampedVelY.v * delta, 200)
         \* 6. Interaction Status Update
         interaction == jsAbsAbove(velX, 50) \/ jsAbsAbove(velY, 50)
         lastInteraction == IF interaction THEN time ELSE lastInteractionTime
         \* 7. Limit X Rotation (Tilt)
         rotX2 == clamp(rotX1, -50, 50)
         \* 8. Recovery Logic (X-Axis only)
         rotX3 == IF time - lastInteraction > TicksPerSec
                    THEN lerp(rotX2, 0, (delta * 2000) \div TicksPerSec)
                    ELSE rotX2
     IN /\ lastHandPos' = IF tracking THEN handState.handPosition ELSE lastHandPos
        /\ currentVelocity' = [x |-> velX, y |-> velY]
        /\ lastInteractionTime' = lastInteraction
        /\ treeGroup' = [treeGroup EXCEPT
                           !.rotationX = rotX3,
                           !.rotationY = rotY2,
                           !.finite = @ /\ clampedVelX.k = "num" /\ clampedVelY.k = "num"]
        /\ experienceOut' = [safeDelta |-> safeDelta, tracking |-> tracking,
                             targetVelX |-> targetVelX, targetVelY |-> targetVelY]
  \* Background Stars Rotation
  /\ stars' = [x |-> stars.x + RoundDiv(delta * 5, TicksPerSec),
               y |-> stars.y - delta]
  /\ UNCHANGED <<appState, hasStarted, handState, enteredTree, particleVars,
                 layoutData, camera, panels, panelOut, panelFrames,
                 solverVars, stepVars, generatorVars>>

\* the scene without photos
ExperienceInit == Init /\ data = DataSet(1) /\ treeGroup.rotationY = 0

ExperienceNext ==
  \/ Start
  \/ \E landmarks \in {"PINCH", "OPEN", "NONE"}, indexTip \in IndexTips :
       predictWebcam(landmarks, indexTip)
  \/ \E delta \in ExperienceDeltas : ExperienceFrame(delta)

ExperienceSpec == ExperienceInit /\ [][ExperienceNext]_vars

----
\* TreeLogic.tsx: Data Generation

treeHeight == 2500

baseRadius == 800

countLeaves == 6000

countOrnaments == 80

countRibbon == 1800

countStar == 400

\* Math.random() outcomes in 1/1000 for one record: a, b, c for the assembled position,
\* u, v, w for randomSpherePoint, s for the scale, e for the rotation, k for the red/gold
\* choice of an ornament and for the depth of a star particle
GeneratorDraws ==
  { [a |-> 0, b |-> 0, c |-> 0, u |-> 0, v |-> 0, w |-> 0, s |-> 0, e |-> <<0, 0, 0>>, k |-> 0],
    [a |-> 999, b |-> 999, c |-> 999, u |-> 250, v |-> 500, w |-> 999, s |-> 999,
     e |-> <<999, 999, 999>>, k |-> 999],
    [a |-> 500, b |-> 300, c |-> 250, u |-> 125, v |-> 900, w |-> 512, s |-> 500,
     e |-> <<100, 700, 400>>, k |-> 501],
    [a |-> 200, b |-> 650, c |-> 810, u |-> 500, v |-> 100, w |-> 125, s |-> 250,
     e |-> <<800, 200, 600>>, k |-> 500],
    [a |-> 800, b |-> 820, c |-> 40, u |-> 750, v |-> 999, w |-> 729, s |-> 750,
     e |-> <<300, 300, 900>>, k |-> 100] }

\* the outcomes used for the garland and the star particles
SpiralDraws ==
  { [a |-> 999, b |-> 999, c |-> 999, u |-> 250, v |-> 500, w |-> 999, s |-> 999,
     e |-> <<999, 999, 999>>, k |-> 999],
    [a |-> 500, b |-> 300, c |-> 250, u |-> 125, v |-> 900, w |-> 512, s |-> 500,
     e |-> <<100, 700, 400>>, k |-> 501] }

\* the largest m in lo..hi with m^p <= n, p = 2 or 3 (lo^p <= n)
RECURSIVE RootBetween(_, _, _, _)
RootBetween(n, p, lo, hi) ==
  IF lo >= hi THEN lo
  ELSE LET mid == (lo + hi + 1) \div 2
           pow == IF p = 2 THEN mid * mid ELSE mid * mid * mid
       IN IF pow <= n THEN RootBetween(n, p, mid, hi) ELSE RootBetween(n, p, lo, mid - 1)

\* Math.sqrt of a value in 1/1000, result in 1/1000
Sqrt(x) == RootBetween(x * 1000, 2, 0, 1000)

\* Math.cbrt of a value in 1/1000, result in 1/1000
Cbrt(x) == RootBetween(x * 1000000, 3, 0, 1000)

\* Helper: Random point in sphere for explosion; sin(acos(c)) is computed as sqrt(1 - c * c)
randomSpherePoint(r, d) ==
  LET theta == RoundDiv(d.u * 62832, 100000)
      cosPhi == 2 * d.v - 1000
      sinPhi == RootBetween(1000000 - cosPhi * cosPhi, 2, 0, 1000)
      radius == RoundDiv(Cbrt(d.w) * r, 1000)
  IN <<RoundDiv(RoundDiv(radius * sinPhi, 1000) * Cos(theta), 1000),
       RoundDiv(RoundDiv(radius * sinPhi, 1000) * Sin(theta), 1000),
       RoundDiv(radius * cosPhi, 1000)>>

\* the argument of randomSpherePoint in the loop of each category
explodeRadiusWidest(category) == 8000

explodeRadius(category) ==
  CASE category = "LEAF" -> 4500
    [] category = "ORNAMENT" -> 5500
    [] category = "RIBBON" -> 6000
    [] category = "STAR_PARTICLE" -> 8000

\* a ParticleData with its optional color (-1: the record has no color)
Colored(p, color) ==
  [id |-> p.id, type |-> p.type, treePosition |-> p.treePosition,
   explodePosition |-> p.explodePosition, rotation |-> p.rotation, scale |-> p.scale,
   color |-> color]

\* new THREE.Euler(Math.random()*Math.PI, ...), 1/1000 radian
EulerOfPi(x) == RoundDiv(x * 3142, 1000)

\* 1. Generate Leaves: the record of iteration i
Leaf(i, d) ==
  LET y == RoundDiv(d.a * treeHeight, 1000)
      hPercent == RoundDiv(y * 1000, treeHeight)
      currentRadius == RoundDiv((1000 - hPercent) * baseRadius, 1000)
      angle == RoundDiv(d.b * 62832, 100000)
      r == RoundDiv(Sqrt(d.c) * currentRadius, 1000)
      treePos == <<RoundDiv(Cos(angle) * r, 1000), y - treeHeight \div 2,
                   RoundDiv(Sin(angle) * r, 1000)>>
  IN Colored(Particle(i, "LEAF", treePos, randomSpherePoint(explodeRadius("LEAF"), d),
                      <<EulerOfPi(d.e[1]), EulerOfPi(d.e[2]), EulerOfPi(d.e[3])>>,
                      RoundDiv(d.s * 3000, 1000) + 1000),
             -1)

\* 2. Generate Ornaments: the record of iteration i
Ornament(i, d) ==
  LET y == RoundDiv(d.a * treeHeight, 1000)
      hPercent == RoundDiv(y * 1000, treeHeight)
      currentRadius == RoundDiv((1000 - hPercent) * baseRadius * 9, 10000)
      angle == RoundDiv(d.b * 62832, 100000)
      r == currentRadius + RoundDiv(d.c * 50, 1000)
      treePos == <<RoundDiv(Cos(angle) * r, 1000), y - treeHeight \div 2,
                   RoundDiv(Sin(angle) * r, 1000)>>
  IN Colored(Particle(countLeaves + i, "ORNAMENT", treePos,
                      randomSpherePoint(explodeRadius("ORNAMENT"), d),
                      <<EulerOfPi(d.e[1]), EulerOfPi(d.e[2]), 0>>,
                      RoundDiv(d.s * 3000, 1000) + 2500),
             -1)

\* const isRed = Math.random() > 0.5
isRed(d) == d.k > 500

\* the id of the garland record of iteration i
ribbonIdAfterLeaves(i) == countLeaves + i

ribbonId(i) == countLeaves + countOrnaments + i

\* 3. Generate Ribbon (Spiral): the record of iteration i; its color is the mix of
\* colorBottom and colorTop at hPercent
Ribbon(i, d) ==
  LET y == RoundDiv(i * treeHeight, countRibbon)
      hPercent == RoundDiv(i * 1000, countRibbon)
      spread == 20 + RoundDiv(hPercent * 150, 1000)
      currentRadius == RoundDiv((1000 - hPercent) * baseRadius, 1000) + 120
                         + RoundDiv((d.c - 500) * spread, 1000)
      angle == RoundDiv(i * 4 * 62832, countRibbon * 100)
      treePos == <<RoundDiv(Cos(angle) * currentRadius, 1000), y - treeHeight \div 2,
                   RoundDiv(Sin(angle) * currentRadius, 1000)>>
  IN Colored(Particle(ribbonId(i), "RIBBON", treePos,
                      randomSpherePoint(explodeRadius("RIBBON"), d),
                      <<d.e[1], d.e[2], d.e[3]>>,
                      RoundDiv(d.s * 1500, 1000) + 800),
             hPercent)

\* 4. Generate Star Particles: the record of iteration i; its color is colorTop
Star(i, d) ==
  LET outerRadius == 140
      starCenterY == treeHeight \div 2 + 150
      lobe == (d.b * 5) \div 1000
      t == d.a
      widthAtT == RoundDiv((1000 - t) * 60, 1000)
      radialDist == RoundDiv(t * outerRadius, 1000)
      lobeAngle == RoundDiv(lobe * 62832, 500) - 157
      perpAngle == lobeAngle + 157
      offset == RoundDiv((d.c - 500) * widthAtT, 1000)
      pt == <<RoundDiv(Cos(lobeAngle) * radialDist + Cos(perpAngle) * offset, 1000),
              RoundDiv(Sin(lobeAngle) * radialDist + Sin(perpAngle) * offset, 1000),
              RoundDiv((d.k - 500) * 60, 1000)>>
      treePos == <<pt[1], pt[2] + starCenterY, pt[3]>>
  IN Colored(Particle(countLeaves + countOrnaments + countRibbon + i, "STAR_PARTICLE", treePos,
                      randomSpherePoint(explodeRadius("STAR_PARTICLE"), d),
                      <<EulerOfPi(d.e[1]), EulerOfPi(d.e[2]), EulerOfPi(d.e[3])>>,
                      RoundDiv(d.s * 1200, 1000) + 500),
             1000)

\* the record is pushed to the array of a particle system
PushTo(s, p, d) ==
  /\ generated' = [generated EXCEPT ![s] = @ + 1]
  /\ lastPushed' = p
  /\ lastDraw' = d
  /\ UNCHANGED <<appState, hasStarted, handState, clock, enteredTree, particleVars, galleryVars,
                 solverVars, stepVars, mounted,
                 experienceVars, handRefs>>

\* one iteration of the loop of the leaves
GenerateLeaf(d) ==
  /\ generated["leaves"] < countLeaves
  /\ PushTo("leaves", Leaf(generated["leaves"], d), d)

\* one iteration of the loop of the ornaments
GenerateOrnament(d) ==
  LET i == generated["redOrnaments"] + generated["goldOrnaments"]
  IN /\ generated["leaves"] = countLeaves
     /\ i < countOrnaments
     /\ PushTo(IF isRed(d) THEN "redOrnaments" ELSE "goldOrnaments", Ornament(i, d), d)

\* one iteration of the loop of the ribbon
GenerateRibbon(d) ==
  /\ generated["redOrnaments"] + generated["goldOrnaments"] = countOrnaments
  /\ generated["ribbonParticles"] < countRibbon
  /\ PushTo("ribbonParticles", Ribbon(generated["ribbonParticles"], d), d)

\* one iteration of the loop of the star particles
GenerateStar(d) ==
  /\ generated["ribbonParticles"] = countRibbon
  /\ generated["starParticles"] < countStar
  /\ PushTo("starParticles", Star(generated["starParticles"], d), d)

\* data[0].color of a particle system whose array is not empty
firstColor(s) ==
  CASE s = "ribbonParticles" -> 0
    [] s = "starParticles" -> 1000
    [] OTHER -> -1

\* ParticleSystem.tsx useLayoutEffect of one system with an array of n records: the
\* positions are copied and, if (meshRef.current && data[0].color), the colors are set;
\* data[0] of an empty array is undefined and reading its color throws a TypeError
useLayoutEffect(s, n) ==
  IF n = 0 THEN "threw"
  ELSE IF firstColor(s) # -1 THEN "colored" ELSE "plain"

\* the five particle systems are mounted with the generated arrays
Mount ==
  /\ generated["starParticles"] = countStar
  /\ \A s \in Systems : mounted[s] = "no"
  /\ mounted' = [s \in Systems |-> useLayoutEffect(s, generated[s])]
  /\ UNCHANGED <<appState, hasStarted, handState, clock, enteredTree, particleVars, galleryVars,
                 solverVars, stepVars, generated, lastPushed, lastDraw,
                 experienceVars, handRefs>>

\* the first render of TreeLogic: nothing generated, nothing mounted
GeneratorInit ==
  /\ InitParticles
  /\ data = DataSet(1)
  /\ InitGallery(<< >>)
  /\ treeGroup.rotationY = 0
  /\ InitSolver
  /\ InitStep
  /\ InitExperience
  /\ generated = [s \in Systems |-> 0]
  /\ lastPushed = NoRecord
  /\ lastDraw = NoDraw
  /\ mounted = [s \in Systems |-> "no"]

GeneratorNext ==
  \/ \E d \in GeneratorDraws : GenerateLeaf(d)
  \/ \E d \in GeneratorDraws : GenerateOrnament(d)
  \/ \E d \in SpiralDraws : GenerateRibbon(d)
  \/ \E d \in SpiralDraws : GenerateStar(d)
  \/ Mount

GeneratorSpec == GeneratorInit /\ [][GeneratorNext]_vars

----
\* PhotoGallery.tsx: the layoutData useMemo (layout solver)

yMin == -1000

yMax == 700

\* baseRadius of the placement cone
placementBaseRadius == 750

minDistance == 360

maxAttempts == 100

\* Math.random() outcomes in 1/1000 for the height, the radius and the angle of a candidate
CandidateDraws == {<<500, 800, 398>>, <<500, 800, 450>>, <<0, 0, 0>>, <<999, 999, 750>>}

\* Math.random() outcomes in 1/1000 for xJitter, yJitter, zJitter
JitterDraws == {<<500, 500, 500>>, <<0, 999, 250>>}

\* new THREE.Vector3(Math.cos(angle) * r, y, Math.sin(angle) * r), kept with its angle
OnCone(angle, r, y) ==
  [pos |-> <<RoundDiv(Cos(angle) * r, 1000), y, RoundDiv(Sin(angle) * r, 1000)>>,
   angle |-> angle]

\* Fallback spiral generator
getSpiralPos(index, count) ==
  LET y == yMin + RoundDiv(index * (yMax - yMin), count)
      hNorm == RoundDiv((y + 1250) * 1000, 2500)
      r == RoundDiv((1000 - hNorm) * placementBaseRadius, 1000) + 120
      angle == index * 250
  IN OnCone(angle, r, y)

\* one random candidate: height, conical radius at this height, angle
Candidate(u) ==
  LET y == yMin + RoundDiv(u[1] * (yMax - yMin), 1000)
      hFromBottom == y + 1250
      hNormalized == Max(0, Min(1000, RoundDiv(hFromBottom * 1000, 2500)))
      coneRadius == RoundDiv((1000 - hNormalized) * placementBaseRadius, 1000)
      r == coneRadius + 80 + RoundDiv(u[2] * 50, 1000)
      angle == RoundDiv(u[3] * 62832, 100000)
  IN OnCone(angle, r, y)

\* Check Collision with existing photos
collisionLoose(candidate, existing) ==
  \E k \in 1..Len(existing) : DistSq(candidate, existing[k].treePos) < 100 * 100

collisionLastOnly(candidate, existing) ==
  /\ Len(existing) > 0
  /\ DistSq(candidate, existing[Len(existing)].treePos) < minDistance * minDistance

collision(candidate, existing) ==
  \E k \in 1..Len(existing) : DistSq(candidate, existing[k].treePos) < minDistance * minDistance

\* dummy.lookAt(0, bestPos.y, 0); dummy.rotateY(Math.PI): the Euler angles (1/1000 radian)
\* of the rotation about Y that turns +z to the outward direction of the position at
\* this angle; a yaw beyond a quarter turn is expressed with x = z = pi
FaceOutward(angle) ==
  LET yaw == ((1571 - angle * 10 + 3142) % 6283) - 3142
  IN IF Abs(yaw) <= 1571 THEN <<0, yaw, 0>>
     ELSE <<3142, (IF yaw > 0 THEN 3142 - yaw ELSE -3142 - yaw), 3142>>

\* (Math.random() - 0.5) * 2 * maxRad, maxRad = 10 degrees
Jitter(u) == RoundDiv((u - 500) * 349, 1000)

\* the record of a photo: its position and its jittered outward rotation
Record(best, j) ==
  LET rot == FaceOutward(best.angle)
  IN [treePos |-> best.pos,
      treeRot |-> <<rot[1] + Jitter(j[1]), rot[2] + Jitter(j[2]), rot[3] + Jitter(j[3])>>]

\* data.push(...): every photo gets a record, whether or not a candidate was valid
PushOnlyValid(existing, record, valid) == IF valid THEN Append(existing, record) ELSE existing

Push(existing, record, valid) == Append(existing, record)

\* for(let attempt = 0; attempt < maxAttempts; attempt++)
loopConditionInclusive(a) == a <= maxAttempts

loopCondition(a) == a < maxAttempts

\* App.tsx handlePhotoUpload with n >= 1 files: the photos are appended and the next
\* render recomputes layoutData for the whole list
handlePhotoUpload(n) ==
  /\ ~solverRun
  /\ photos + n <= MaxPhotos
  /\ photos' = photos + n
  /\ solverRun' = TRUE
  /\ photoIndex' = 0
  /\ attempt' = 0
  /\ solverData' = << >>
  /\ placedBy' = << >>
  /\ lastCandidate' = << >>
  /\ UNCHANGED <<appState, hasStarted, handState, clock, enteredTree, particleVars, galleryVars,
                 stepVars, generatorVars,
                 experienceVars, handRefs>>

\* one pass of the attempt loop for photo i; an accepted candidate ends the loop and the
\* record of the photo is pushed
Attempt(u, j) ==
  /\ solverRun
  /\ photoIndex < photos
  /\ loopCondition(attempt)
  /\ lastCandidate' = Candidate(u).pos
  /\ LET drawn == Candidate(u)
     IN IF collision(drawn.pos, solverData)
          THEN /\ attempt' = attempt + 1
               /\ UNCHANGED <<photoIndex, solverData, placedBy>>
          ELSE /\ solverData' = Push(solverData, Record(drawn, j), TRUE)
               /\ placedBy' = Append(placedBy, [photo |-> photoIndex, by |-> "random"])
               /\ photoIndex' = photoIndex + 1
               /\ attempt' = 0
  /\ UNCHANGED <<appState, hasStarted, handState, clock, enteredTree, particleVars, galleryVars,
                 photos, solverRun, stepVars, generatorVars,
                 experienceVars, handRefs>>

\* Fallback if collision check failed repeatedly: the spiral position, unchecked
Fallback(j) ==
  /\ solverRun
  /\ photoIndex < photos
  /\ ~loopCondition(attempt)
  /\ UNCHANGED lastCandidate
  /\ solverData' = Push(solverData, Record(getSpiralPos(photoIndex, photos), j), FALSE)
  /\ placedBy' = Append(placedBy, [photo |-> photoIndex, by |-> "fallback"])
  /\ photoIndex' = photoIndex + 1
  /\ attempt' = 0
  /\ UNCHANGED <<appState, hasStarted, handState, clock, enteredTree, particleVars, galleryVars,
                 photos, solverRun, stepVars, generatorVars,
                 experienceVars, handRefs>>

\* return data, and the render of one ChristmasFilmFrame per photo: a panel that is
\* already mounted keeps its refs, a new one starts at its positionData
Render ==
  /\ solverRun
  /\ photoIndex = photos
  /\ solverRun' = FALSE
  /\ layoutData' = solverData
  /\ panels' = [k \in 1..photos |->
                  IF k <= Len(panels) THEN panels[k] ELSE PanelInit(solverData[k])]
  /\ panelOut' = [k \in 1..photos |-> IF k <= Len(panelOut) THEN panelOut[k] ELSE NoPanelOutput]
  /\ UNCHANGED <<appState, hasStarted, handState, clock, enteredTree, particleVars,
                 camera, treeGroup, panelFrames,
                 photos, photoIndex, attempt, solverData, placedBy, lastCandidate, stepVars,
                 generatorVars,
                 experienceVars, handRefs>>

\* the first upload of a session
FirstUpload(n) == photos = 0 /\ handlePhotoUpload(n)

LayoutNext ==
  \/ \E n \in 1..MaxPhotos : FirstUpload(n)
  \/ \E u \in CandidateDraws, j \in JitterDraws : Attempt(u, j)
  \/ \E j \in JitterDraws : Fallback(j)
  \/ Render

\* the scene without photos, before the first upload
LayoutInit == Init /\ data = DataSet(1) /\ treeGroup.rotationY = 0

LayoutSpec == LayoutInit /\ [][LayoutNext]_vars

----
\* Properties of the particle animation

Wave == {"ribbonParticles", "starParticles"}

Entities(s) == 1..Len(data[s])

\* the step is a rendered frame
IsFrame == frames' = frames + 1

\* the entity was emitted with its revealed scale by the latest frame
Revealed(o) == o.branch \in {"wave", "pop"} /\ ~o.streak

\* C1: in every frame, transitionStartTime is set to the clock time of the frame exactly
\* when the mode of the frame differs from the mode remembered from the previous frame;
\* in every other frame transitionStartTime and the remembered mode keep their values.
C1_EdgeTriggered ==
  [][IsFrame =>
       \A s \in Systems :
         IF appState # lastState[s]
           THEN transitionStartTime'[s] = clock' /\ lastState'[s] = appState
           ELSE transitionStartTime'[s] = transitionStartTime[s] /\ lastState'[s] = lastState[s]]_vars

\* a frame at a positive clock time has detected a change, and a later frame has kept it
C1_Witness ==
  /\ frames >= 2
  /\ \A s \in Systems : transitionStartTime[s] > 0 /\ transitionStartTime[s] < clock

\* C2 (as stated): whenever an external trigger has switched the mode to Assembled since
\* the previous frame, the wave height of the next Assembled frame restarts at waveStart.
C2_RestartPerEntry ==
  [][(IsFrame /\ enteredTree /\ appState = "TREE") =>
       \A s \in Wave : currentWaveHeight'[s] = waveStartOffset]_vars

\* C2 (amended): the wave restarts at waveStart in every frame that sees Assembled after
\* the previous frame saw Dispersed, and in a frame that sees Assembled after a frame that
\* saw Assembled it continues from its previous height, whatever happened in between.
C2_RestartPerObservedEntry ==
  [][(IsFrame /\ appState = "TREE") =>
       \A s \in Wave :
         IF lastState[s] = "EXPLODE"
           THEN currentWaveHeight'[s] = waveStartOffset
           ELSE currentWaveHeight'[s] =
                  waveStartOffset + (clock' - transitionStartTime[s]) * 100]_vars

\* a frame at a positive clock time has observed the entry into Assembled
C2_Witness ==
  /\ frames >= 2
  /\ clock > 0
  /\ \A s \in Wave : /\ lastState[s] = "TREE"
                     /\ transitionStartTime[s] = clock
                     /\ currentWaveHeight[s] = waveStartOffset

\* C3: in a frame that sees Assembled after a frame that saw Assembled, a Garland or
\* Accent entity that the previous frame emitted revealed is emitted revealed again.
C3_NoFlicker ==
  [][(IsFrame /\ appState = "TREE") =>
       \A s \in Wave : \A i \in Entities(s) :
         (lastState[s] = "TREE" /\ Revealed(out[s][i])) => Revealed(out'[s][i])]_vars

\* a Garland entity and the Accent entity are revealed in a frame of a session in which the
\* wave had passed them in the frame before
C3_Witness ==
  /\ frames >= 2
  /\ frameLog[frames][1] = "TREE" /\ frameLog[frames - 1][1] = "TREE"
  /\ \E i \in Entities("ribbonParticles") :
       /\ Revealed(out["ribbonParticles"][i])
       /\ data["ribbonParticles"][i].treePosition[2]
            < currentWaveHeight["ribbonParticles"] - frameLog[frames][2] * 100
  /\ \E i \in Entities("starParticles") :
       /\ Revealed(out["starParticles"][i])
       /\ currentWaveHeight["starParticles"] - frameLog[frames][2] * 100 > 1400

\* C4: in an Assembled frame a Garland entity whose assembled height the wave has not
\* passed is emitted with the hidden scale 0.01, and a scale derived from its baseScale
\* is emitted only for an entity whose assembled height is below the wave height.
C4_HiddenUntilWave ==
  (frames > 0 /\ lastState["ribbonParticles"] = "TREE") =>
    \A i \in Entities("ribbonParticles") :
      LET p == data["ribbonParticles"][i]
          o == out["ribbonParticles"][i]
          w == currentWaveHeight["ribbonParticles"]
      IN /\ p.treePosition[2] >= w => o.scale = 100
         /\ o.scale # 100 => p.treePosition[2] < w

\* one Garland entity is at the wave height exactly and hidden, another is revealed
C4_Witness ==
  /\ frames > 0 /\ lastState["ribbonParticles"] = "TREE"
  /\ \E i \in Entities("ribbonParticles") :
       /\ data["ribbonParticles"][i].treePosition[2] = currentWaveHeight["ribbonParticles"]
       /\ out["ribbonParticles"][i].scale = 100
  /\ \E i \in Entities("ribbonParticles") : out["ribbonParticles"][i].scale > 100

\* C5: in every Dispersed frame every Garland and Accent entity is emitted with scale 0.
C5_DispersedZero ==
  \A s \in Wave :
    (frames > 0 /\ lastState[s] = "EXPLODE") =>
      \A i \in Entities(s) : out[s][i].scale = 0

\* a Dispersed frame has left a Garland and an Accent entity farther than 3 from the tree
C5_Witness ==
  /\ frames > 0
  /\ \A s \in Wave :
       /\ lastState[s] = "EXPLODE"
       /\ \E i \in Entities(s) :
            DistSq(currentPositions[s][i], data[s][i].treePosition) > 300 * 300

\* C6: in an Assembled frame every Garland and Accent entity whose running position after
\* the interpolation is farther than 3.0 from its assembled position is emitted with 0.01.
C6_StreakSuppressed ==
  \A s \in Wave :
    (frames > 0 /\ lastState[s] = "TREE") =>
      \A i \in Entities(s) :
        DistSq(currentPositions[s][i], data[s][i].treePosition) > 300 * 300
          => out[s][i].scale = 100

\* the wave has passed a Garland entity that is still farther than 3.0 from the tree
C6_Witness ==
  /\ frames > 0
  /\ lastState["ribbonParticles"] = "TREE"
  /\ \E i \in Entities("ribbonParticles") :
       /\ out["ribbonParticles"][i].branch = "wave"
       /\ DistSq(currentPositions["ribbonParticles"][i],
                 data["ribbonParticles"][i].treePosition) > 300 * 300

\* the Accent entity is farther than 3.0 from the tree in an Assembled frame
C6_WitnessAccent ==
  /\ frames > 0
  /\ lastState["starParticles"] = "TREE"
  /\ \E i \in Entities("starParticles") :
       DistSq(currentPositions["starParticles"][i],
              data["starParticles"][i].treePosition) > 300 * 300

\* C7: in an Assembled frame an Accent entity is emitted hidden while the wave height is
\* at most 14.0; above it the pop-in progress is (waveHeight - 14.0) / 5 until the wave is
\* 5 units past the threshold, 1 from then on, and always within [0, 1].
C7_PopProgress ==
  (frames > 0 /\ lastState["starParticles"] = "TREE") =>
    \A i \in Entities("starParticles") :
      LET o == out["starParticles"][i]
          w == currentWaveHeight["starParticles"]
      IN /\ w <= 1400 => (o.branch = "hidden" /\ o.scale \in {10, 100} /\ o.popProgress = -1)
         /\ w > 1400 =>
              /\ o.branch = "pop"
              /\ o.popProgress >= 0 /\ o.popProgress <= 1000
              /\ w < 1900 => o.popProgress * 5 = (w - 1400) * 10
              /\ w >= 1900 => o.popProgress = 1000

\* the Accent entity is emitted in the middle of its pop-in
C7_Witness ==
  /\ frames > 0 /\ lastState["starParticles"] = "TREE"
  /\ \E i \in Entities("starParticles") :
       /\ out["starParticles"][i].popProgress > 0
       /\ out["starParticles"][i].popProgress < 1000

\* the Accent entity is emitted with the wave more than 5 units past the threshold
C7_WitnessFull ==
  /\ frames > 0 /\ lastState["starParticles"] = "TREE"
  /\ currentWaveHeight["starParticles"] > 1900
  /\ \E i \in Entities("starParticles") : out["starParticles"][i].popProgress = 1000

\* C8 (as stated): a Garland entity at assembled height 5 is eligible for reveal in the
\* Assembled frame in which t - modeChangedAt is 1.0 second.
C8_EligibleAtOneSecond ==
  (frames > 0 /\ lastState["ribbonParticles"] = "TREE"
     /\ clock - transitionStartTime["ribbonParticles"] = TicksPerSec) =>
    \A i \in Entities("ribbonParticles") :
      data["ribbonParticles"][i].treePosition[2] = 500
        => out["ribbonParticles"][i].branch = "wave"

\* C8 (amended): a Garland entity at assembled height y is eligible for reveal exactly in
\* the Assembled frames in which t - modeChangedAt is greater than (y + 15) / 20.
C8_EligibleAfterThreshold ==
  (frames > 0 /\ lastState["ribbonParticles"] = "TREE") =>
    \A i \in Entities("ribbonParticles") :
      LET y == data["ribbonParticles"][i].treePosition[2]
          t == clock - transitionStartTime["ribbonParticles"]
      IN (out["ribbonParticles"][i].branch = "wave" /\ out["ribbonParticles"][i].activeLerp = 200)
           <=> t * 100 * 20 > (y + 1500) * TicksPerSec

\* the entity at height 5 is eligible 1.05 seconds after the transition
C8_Witness ==
  /\ frames > 0 /\ lastState["ribbonParticles"] = "TREE"
  /\ clock - transitionStartTime["ribbonParticles"] = TicksPerSec + 1
  /\ \E i \in Entities("ribbonParticles") :
       /\ data["ribbonParticles"][i].treePosition[2] = 500
       /\ out["ribbonParticles"][i].branch = "wave"

\* every frame so far was a Dispersed frame with one and the same positive delta
ModeFlipRun ==
  /\ frames >= 1
  /\ frameLog[1][2] > 0
  /\ \A k \in 1..frames : frameLog[k][1] = "EXPLODE" /\ frameLog[k][2] = frameLog[1][2]

\* C10: after the flip from the initial Assembled state to Dispersed and a number of frames
\* at a fixed positive delta, every running position is strictly closer to its dispersed
\* position than the assembled position is, and every Garland entity is emitted with scale 0.
C10_ModeFlip ==
  ModeFlipRun =>
    /\ \A s \in Systems : \A i \in Entities(s) :
         DistSq(currentPositions[s][i], data[s][i].explodePosition)
           < DistSq(data[s][i].treePosition, data[s][i].explodePosition)
    /\ \A i \in Entities("ribbonParticles") : out["ribbonParticles"][i].scale = 0

\* three Dispersed frames of 0.05 s after the flip
C10_Witness == ModeFlipRun /\ frames >= 3 /\ frameLog[1][2] = 1

\* C11: a mode switch changes no running position and no emitted transform by itself; the
\* next frame updates every entity of a particle system under the mode that is current at
\* that frame and under one wave height, the one of that frame.
C11_NextFrameOneMode ==
  [][/\ IsFrame =>
          \A s \in Systems : \A i \in Entities(s) :
            /\ out'[s][i].mode = appState
            /\ out'[s][i].wave = currentWaveHeight'[s]
            /\ currentWaveHeight'[s] = WaveHeight(clock', transitionStartTime'[s])
     /\ ~IsFrame => UNCHANGED <<out, currentPositions, currentWaveHeight>>]_vars

\* a frame has updated both Garland entities under Dispersed after the mode was switched
\* behind an Assembled frame
C11_Witness ==
  /\ frames >= 2
  /\ frameLog[frames - 1][1] = "TREE" /\ frameLog[frames][1] = "EXPLODE"
  /\ \A i \in Entities("ribbonParticles") : out["ribbonParticles"][i].mode = "EXPLODE"

----
\* Properties of every per-frame interpolation

\* v lies between a and b
Between(v, a, b) == (a <= v /\ v <= b) \/ (b <= v /\ v <= a)

BetweenVec(v, a, b) == \A k \in 1..3 : Between(v[k], a[k], b[k])

\* C9 (particles): every frame interpolates the running position of every entity with a
\* factor within [0, 1], and the new position lies between the previous one and the target.
C9_ParticleLerpBounded ==
  [][IsFrame =>
       \A s \in Systems : \A i \in Entities(s) :
         /\ out'[s][i].activeLerp >= 0 /\ out'[s][i].activeLerp <= 1000
         /\ BetweenVec(currentPositions'[s][i], currentPositions[s][i], out'[s][i].target)]_vars

\* a frame of one second, whose delta * animationSpeed exceeds 1, has moved the entities
C9_ParticleWitness ==
  /\ frames > 0
  /\ frameLog[frames] = <<"EXPLODE", 20>>
  /\ \A s \in Systems : \A i \in Entities(s) : out[s][i].activeLerp = 1000

\* C9: every frame interpolates every running value (particle positions; position, rotation
\* and scale of the gallery panels) with a factor within [0, 1], so that the new value lies
\* between the previous value and the target.
C9_LerpBounded ==
  [][(IsFrame =>
        \A s \in Systems : \A i \in Entities(s) :
          /\ out'[s][i].activeLerp >= 0 /\ out'[s][i].activeLerp <= 1000
          /\ BetweenVec(currentPositions'[s][i], currentPositions[s][i], out'[s][i].target))
     /\ (panelFrames' = panelFrames + 1 =>
           \A i \in 1..Len(layoutData) :
             /\ panelOut'[i].t >= 0 /\ panelOut'[i].t <= 1000
             /\ BetweenVec(panels'[i].currentPos, panels[i].currentPos, panelOut'[i].targetPos)
             /\ BetweenVec(panels'[i].currentRot, panels[i].currentRot, panelOut'[i].targetQuat)
             /\ Between(panels'[i].currentScale, panels[i].currentScale,
                        panelOut'[i].finalTargetScale))]_vars

----
\* Properties of the layout solver

\* the records of the latest layout: layoutData and how each record was placed
Placed == 1..Len(layoutData)

Separated(a, b) == DistSq(a.treePos, b.treePos) >= minDistance * minDistance

\* C12: the solver never drops a photo: while it runs it has pushed one record per photo
\* handled so far, and the layout it returns holds exactly one record per uploaded photo,
\* the k-th record made for the k-th photo; a panel is mounted for every record.
C12_OneRecordPerPhoto ==
  /\ solverRun => Len(solverData) = photoIndex
  /\ ~solverRun =>
       /\ Len(layoutData) = photos
       /\ Len(panels) = photos
       /\ Len(placedBy) = photos
       /\ \A k \in 1..photos : placedBy[k].photo = k - 1

\* two photos were uploaded and every candidate of the second one collided
C12_Witness ==
  /\ ~solverRun
  /\ photos = 2
  /\ Len(layoutData) = 2
  /\ placedBy[2].by = "fallback"

\* C13 as stated: any two positions of a returned layout are at least minDistance apart.
C13_AllSeparated ==
  ~solverRun => \A a, b \in Placed : a < b => Separated(layoutData[a], layoutData[b])

\* C13: a position found by the random search is at least minDistance away from every
\* position placed before it, fallback positions included; a fallback position is taken
\* unchecked and may be closer than minDistance to earlier positions.
C13_RandomSeparatedFromEarlier ==
  /\ \A a, b \in 1..Len(solverData) :
       a < b /\ placedBy[b].by = "random" => Separated(solverData[a], solverData[b])
  /\ ~solverRun => layoutData = solverData

\* a layout of three photos: the second is a fallback closer than minDistance to the
\* first, the third was found by the random search after them
C13_Witness ==
  /\ ~solverRun
  /\ photos = 3
  /\ placedBy[2].by = "fallback"
  /\ ~Separated(layoutData[1], layoutData[2])
  /\ placedBy[3].by = "random"

\* C14: any two positions of a returned layout that were both found by the random search
\* are at least minDistance apart, whatever fallbacks the layout contains.
C14_RandomPairsSeparated ==
  ~solverRun =>
    \A a, b \in Placed :
      a # b /\ placedBy[a].by = "random" /\ placedBy[b].by = "random"
        => Separated(layoutData[a], layoutData[b])

\* a layout with a fallback between two positions found by the random search
C14_Witness ==
  /\ ~solverRun
  /\ photos = 3
  /\ placedBy[1].by = "random"
  /\ placedBy[2].by = "fallback"
  /\ placedBy[3].by = "random"
  /\ ~Separated(layoutData[2], layoutData[1])
  /\ Separated(layoutData[3], layoutData[1])

----
\* Properties of the carousel

\* C15 as stated: the scroll index a whole number of cycles later is the scroll index plus
\* that number.
C15_Periodic ==
  stepOutput.done => stepOutput.scrollIndexLater = stepOutput.scrollIndex + 1000 * stepInput.cycles

\* C16: while the cycle phase is within HOLD the scroll index is the whole number
\* floor(time / cycle); a scroll index that is not a whole number occurs only with a
\* cycle phase beyond HOLD.
C16_HoldConstant ==
  stepOutput.done =>
    /\ stepOutput.cyclePhase <= HOLD_DURATION =>
         stepOutput.scrollIndex = 1000 * (stepInput.time \div (HOLD_DURATION + MOVE_DURATION))
    /\ stepOutput.scrollIndex % 1000 # 0 => stepOutput.cyclePhase > HOLD_DURATION

\* the step was computed for a time late in the HOLD interval of the third cycle
C16_Witness ==
  /\ stepOutput.done
  /\ stepInput.time = 2 * CYCLE_DURATION + HOLD_DURATION - 1
  /\ stepOutput.scrollIndex = 2000

\* C17: the wrapped horizontal offset of every panel lies within half the total width on
\* either side of the centre and differs from (slot position - scroll offset) by a whole
\* multiple of the total width.
C17_WrappedOffset ==
  stepOutput.done =>
    LET totalWidth == stepInput.total * stepOutput.itemStride
        currentScrollOffset == RoundDiv(stepOutput.scrollIndex * stepOutput.itemStride, 1000)
    IN \A k \in 1..stepInput.total :
         /\ 2 * stepOutput.x[k] >= -totalWidth
         /\ 2 * stepOutput.x[k] <= totalWidth
         /\ (stepOutput.x[k] - ((k - 1) * stepOutput.itemStride - currentScrollOffset))
              % totalWidth = 0

\* three panels in the MOVE interval of the fourth cycle: the offset of the first panel
\* is the negative remainder, the offset of the second one was wrapped up from below
C17_Witness ==
  /\ stepOutput.done
  /\ stepInput.total = 3
  /\ stepOutput.scrollIndex > 3000 /\ stepOutput.scrollIndex < 4000
  /\ stepOutput.x[1] < 0
  /\ stepOutput.x[2] > 0
  /\ stepOutput.x[2] =
       JsRem(stepOutput.itemStride
               - RoundDiv(stepOutput.scrollIndex * stepOutput.itemStride, 1000),
             3 * stepOutput.itemStride) + 3 * stepOutput.itemStride

----
\* Properties of the data generation

\* the number of records pushed so far
TotalGenerated ==
  generated["leaves"] + generated["redOrnaments"] + generated["goldOrnaments"]
    + generated["ribbonParticles"] + generated["starParticles"]

GenerationComplete == generated["starParticles"] = 400

Origin == <<0, 0, 0>>

\* C18: the ids of the records are 0, 1, 2, ... in the order of generation, so no two
\* records share an id and every record went to exactly one array; a complete generation
\* holds 6000 leaves, 80 ornaments over the red and the gold array together, 1800 garland
\* and 400 accent records.
C18_CountsAndIds ==
  /\ TotalGenerated > 0 => lastPushed.id = TotalGenerated - 1
  /\ GenerationComplete =>
       /\ generated["leaves"] = 6000
       /\ generated["redOrnaments"] + generated["goldOrnaments"] = 80
       /\ generated["ribbonParticles"] = 1800
       /\ generated["starParticles"] = 400

\* a complete generation with ornaments of both colours
C18_Witness ==
  /\ GenerationComplete
  /\ generated["redOrnaments"] > 0
  /\ generated["goldOrnaments"] > 0
  /\ lastPushed.id = 8279

\* C19: the dispersed position of every generated record lies within the sphere of its
\* category (45, 55, 60, 80 units) and within the radius cbrt(w) times the category radius
\* of its draw w (up to the rounding of the coordinates).
C19_WithinSphere ==
  lastPushed.type # "none" =>
    LET r == CASE lastPushed.type = "LEAF" -> 4500
               [] lastPushed.type = "ORNAMENT" -> 5500
               [] lastPushed.type = "RIBBON" -> 6000
               [] lastPushed.type = "STAR_PARTICLE" -> 8000
        radius == RoundDiv(Cbrt(lastDraw.w) * r, 1000)
    IN /\ DistSq(lastPushed.explodePosition, Origin) <= r * r
       /\ DistSq(lastPushed.explodePosition, Origin) <= (radius + 1) * (radius + 1)

\* a leaf was generated with a draw w close to 1: its dispersed position is close to the
\* surface of the sphere of radius 45
C19_Witness ==
  /\ lastPushed.type = "LEAF"
  /\ lastDraw.w = 999
  /\ DistSq(lastPushed.explodePosition, Origin) >= 4490 * 4490

\* C20 as stated for the initialisation: no particle system throws when it is mounted,
\* whatever the generated arrays.
C20_NoThrow == \A s \in Systems : mounted[s] # "threw"

----
\* Properties of the scene rotation

IsExperienceFrame == experienceFrames' = experienceFrames + 1

VelocityFinite == currentVelocity.x.k = "num" /\ currentVelocity.y.k = "num"

\* C21: in every frame, a frame with delta 0 included, the divisor of the velocity is at
\* least 0.001 s (one millisecond); the target velocity, the smoothed velocity and the
\* rotation of the tree group are finite numbers at all times.
C21_SafeDelta ==
  /\ experienceFrames > 0 => experienceOut.safeDelta >= 1
  /\ experienceOut.targetVelX.k = "num" /\ experienceOut.targetVelY.k = "num"
  /\ VelocityFinite
  /\ treeGroup.finite

\* a frame with delta 0 has turned a hand displacement into a velocity, dividing by 0.001 s
C21_Witness ==
  /\ experienceFrames > 0
  /\ experienceOut.tracking
  /\ experienceOut.safeDelta = 1
  /\ experienceOut.targetVelX.v # 0

----
\* Properties of the external triggers

\* the other mode
Flipped(mode) == IF mode = "TREE" THEN "EXPLODE" ELSE "TREE"

----
\* Properties of the interpolation factor

WaveSystems == {"ribbonParticles", "starParticles"}

\* entity i of system s lies below the wave front of the latest frame
BelowWave(s, i) == data[s][i].treePosition[2] < currentWaveHeight[s]

\* C23 as stated: in an assembled-mode frame, in the garland system and in the accent
\* system alike, an entity below the wave front is interpolated with a strictly larger
\* factor than an entity of the same system that still waits for the wave.
C23_BothFastSlow ==
  \A s \in WaveSystems :
    (frames > 0 /\ lastState[s] = "TREE") =>
      \A i, j \in Entities(s) :
        (BelowWave(s, i) /\ ~BelowWave(s, j)) => out[s][i].activeLerp > out[s][j].activeLerp

\* C23 amended: in an assembled-mode frame a garland entity below the wave front is
\* interpolated with factor 0.2 and a waiting one with 0.05; an accent entity is
\* interpolated with clamp(delta * 3.0, 0, 1) whether the wave has passed it or not.
C23_GarlandFastSlow ==
  (frames > 0 /\ lastState["ribbonParticles"] = "TREE") =>
    /\ \A i \in Entities("ribbonParticles") :
         out["ribbonParticles"][i].activeLerp =
           IF BelowWave("ribbonParticles", i) THEN 200 ELSE 50
    /\ \A i, j \in Entities("ribbonParticles") :
         (BelowWave("ribbonParticles", i) /\ ~BelowWave("ribbonParticles", j)) =>
           out["ribbonParticles"][i].activeLerp > out["ribbonParticles"][j].activeLerp
    /\ \A i \in Entities("starParticles") :
         out["starParticles"][i].activeLerp =
           clamp((frameLog[frames][2] * 3000) \div TicksPerSec, 0, 1000)

\* an assembled-mode frame of positive delta with the wave front between two garland
\* entities
C23_Witness ==
  /\ frames > 0 /\ lastState["ribbonParticles"] = "TREE"
  /\ frameLog[frames][2] > 0
  /\ \E i, j \in Entities("ribbonParticles") :
       /\ BelowWave("ribbonParticles", i) /\ ~BelowWave("ribbonParticles", j)
       /\ out["ribbonParticles"][i].activeLerp = 200
       /\ out["ribbonParticles"][j].activeLerp = 50

----
\* Properties of the emitted rotation

SpinSystems == {"leaves", "redOrnaments", "goldOrnaments"}

\* C24: when a frame follows a frame of the same mode and the same positive delta, the
\* rotation emitted for every foliage and ornament entity differs from the one emitted
\* in the frame before (the spin angle has advanced).
C24_SpinAdvances ==
  [][(/\ IsFrame
      /\ frames > 0
      /\ frameLog'[frames'] = frameLog[frames]
      /\ frameLog[frames][2] > 0)
       => \A s \in SpinSystems : \A i \in Entities(s) :
            out'[s][i].rotation # out[s][i].rotation]_vars

----
\* Properties of the panel targets

IsGalleryFrame == panelFrames' = panelFrames + 1

----
\* Properties of the attempt loop

\* the progress of a solver run: 101 steps at most per photo, 100 rejected candidates and
\* the push of its record
Progress == photoIndex * 101 + attempt

TooClose(pos, record) == DistSq(pos, record.treePos) < minDistance * minDistance

\* C26: the solver has rejected at most 100 candidates for the photo it is placing; a
\* rejected candidate is closer than D to some placed position; an accepted candidate is at
\* least D from every placed position and is the position pushed; a photo is completed by
\* the fallback exactly when 100 candidates have been rejected, and then its position is
\* the spiral position of its index; every step of a run advances its progress, which
\* is bounded by 101 steps per photo, so every run ends.
C26_AttemptLoop ==
  /\ [](attempt >= 0 /\ attempt <= 100)
  /\ [][/\ (attempt' = attempt + 1) =>
             /\ photoIndex' = photoIndex /\ solverData' = solverData
             /\ \E k \in 1..Len(solverData) : TooClose(lastCandidate', solverData[k])
        /\ (photoIndex' = photoIndex + 1) =>
             LET record == solverData'[Len(solverData')]
                 by == placedBy'[Len(placedBy')].by
             IN /\ Len(solverData') = Len(solverData) + 1
                /\ attempt' = 0
                /\ (by = "fallback") <=> (attempt = 100)
                /\ by = "random" =>
                     /\ record.treePos = lastCandidate'
                     /\ \A k \in 1..Len(solverData) : ~TooClose(lastCandidate', solverData[k])
                /\ by = "fallback" =>
                     /\ lastCandidate' = lastCandidate
                     /\ record.treePos = getSpiralPos(photoIndex, photos).pos]_vars
  /\ [](solverRun => Progress <= 101 * photos)
  /\ [][(solverRun /\ solverRun') => Progress' > Progress]_vars
  /\ [][(solverRun /\ Progress = 101 * photos) => ~solverRun']_vars

\* a photo was placed by the fallback after 100 rejected candidates and a later photo of
\* the same run by a random candidate
C26_Witness ==
  /\ ~solverRun /\ photos = 3
  /\ placedBy[2].by = "fallback"
  /\ placedBy[3].by = "random"

----
\* Properties of the entity loop

\* the orders in which the entities of system s can be taken
Orders(s) ==
  {order \in [1..Len(data[s]) -> 0..(Len(data[s]) - 1)] :
     \A k, l \in 1..Len(data[s]) : order[k] = order[l] => k = l}

\* C27: in every frame the loop body for entity i, applied to the buffer and the sink as
\* the frame found them, changes only the three slots 3i..3i+2 of the buffer and only
\* place i of the sink, and what it writes there is what the frame leaves there; the loop
\* taken in any order of the entities ends with the buffer and the sink of the frame.
C27_OwnSlotsOnly ==
  [][IsFrame =>
       \A s \in Systems :
         \A st \in {[buffer |-> Flat(currentPositions[s]), sink |-> out[s]]},
            f \in {[mode |-> appState, time |-> clock', delta |-> frameLog'[frames'][2],
                    wave |-> currentWaveHeight'[s]]} :
            /\ \A i \in 0..(Len(data[s]) - 1) :
                 \A after \in {LoopBody(st, s, i, f)} :
                    /\ \A k \in 1..(3 * Len(data[s])) :
                         k \notin {3 * i + 1, 3 * i + 2, 3 * i + 3} =>
                           after.buffer[k] = st.buffer[k]
                    /\ \A j \in 1..Len(data[s]) : j # i + 1 => after.sink[j] = st.sink[j]
                    /\ after.sink[i + 1] = out'[s][i + 1]
                    /\ <<after.buffer[3 * i + 1], after.buffer[3 * i + 2],
                         after.buffer[3 * i + 3]>> = currentPositions'[s][i + 1]
            /\ \A order \in Orders(s) :
                 \A end \in {Loop(st, s, order, 1, f)} :
                   Unflat(end.buffer) = currentPositions'[s] /\ end.sink = out'[s]]_vars

\* two frames have moved both garland entities, each in its own slots
C27_Witness ==
  /\ frames >= 2
  /\ \A i \in Entities("ribbonParticles") :
       /\ currentPositions["ribbonParticles"][i] # data["ribbonParticles"][i].treePosition
       /\ currentPositions["ribbonParticles"][i] # data["ribbonParticles"][i].explodePosition
  /\ currentPositions["ribbonParticles"][1] # currentPositions["ribbonParticles"][2]

----
\* Properties of the order of the reveals

\* C28: all particle systems measure the wave from the same transition time, and in every
\* assembled-mode frame in which an accent entity is in its pop-in, the wave of the
\* garland system has passed every garland entity (each lies below 14.0, and so below
\* the wave) and each has taken the branch of a revealed entity.
C28_StarAfterRibbon ==
  /\ \A s, r \in Systems : /\ transitionStartTime[s] = transitionStartTime[r]
                           /\ currentWaveHeight[s] = currentWaveHeight[r]
  /\ (/\ frames > 0
      /\ lastState["starParticles"] = "TREE"
      /\ \E i \in Entities("starParticles") : out["starParticles"][i].branch = "pop")
       => /\ lastState["ribbonParticles"] = "TREE"
          /\ \A j \in Entities("ribbonParticles") :
               /\ data["ribbonParticles"][j].treePosition[2] < 1400
               /\ BelowWave("ribbonParticles", j)
               /\ out["ribbonParticles"][j].branch = "wave"

\* after a return to assembled mode the wave has climbed past 14.0 again: the accent
\* entities pop in, behind the garland
C28_Witness ==
  /\ frames >= 3
  /\ \E k \in 1..(frames - 1) : frameLog[k][1] = "EXPLODE"
  /\ lastState["starParticles"] = "TREE"
  /\ transitionStartTime["starParticles"] > 0
  /\ \E i \in Entities("starParticles") : out["starParticles"][i].branch = "pop"
  /\ \A j \in Entities("ribbonParticles") : out["ribbonParticles"][j].branch = "wave"

----
\* Properties of the centered panel and of the scroll index in time

\* C29: while the cycle phase is within HOLD exactly one panel has the wrapped offset 0,
\* the panel whose index is floor(time / cycle) mod N; it does not wobble, and every
\* other panel is at least one stride away and wobbles.
C29_OneCentered ==
  (stepOutput.done /\ stepOutput.cyclePhase <= HOLD_DURATION) =>
    LET centered == (stepInput.time \div (HOLD_DURATION + MOVE_DURATION)) % stepInput.total
    IN \A k \in 1..stepInput.total :
         /\ (stepOutput.x[k] = 0) <=> (k - 1 = centered)
         /\ k - 1 = centered => ~stepOutput.wobble[k]
         /\ k - 1 # centered =>
              /\ Abs(stepOutput.x[k]) >= stepOutput.itemStride
              /\ stepOutput.wobble[k]

\* three panels in the HOLD interval of the fourth cycle: the first panel is centered
\* again, the other two wobble at its sides
C29_Witness ==
  /\ stepOutput.done
  /\ stepInput.total = 3
  /\ stepInput.time = 3 * CYCLE_DURATION + 5
  /\ stepOutput.x[1] = 0 /\ ~stepOutput.wobble[1]
  /\ stepOutput.x[2] > 0 /\ stepOutput.wobble[2]
  /\ stepOutput.x[3] < 0 /\ stepOutput.wobble[3]

\* C30: from one tick to the next the scroll index does not decrease and rises by less
\* than a third of an index.
C30_Monotone ==
  stepOutput.done =>
    /\ stepOutput.scrollIndexAfter >= stepOutput.scrollIndexLater
    /\ stepOutput.scrollIndexAfter - stepOutput.scrollIndexLater < 334

====
